---- MODULE Spec2Model ----
(***************************************************************************)
(* Model of scripts/analyze_coverage.py: parse_cover_out (the line loop    *)
(* over cover.out), calculate_coverage and the report built by main().     *)
(*                                                                         *)
(* Text is modelled as sequences of one-character strings, so that         *)
(* strip(), re.match(), int() and str() are computed, not assumed.         *)
(* A coverage percentage is a Python float (covered / total) * 100.0; it   *)
(* is modelled by the exact rational [num, den].  For the totals the model *)
(* reaches (well below 2^53) the double has the same order as the rational *)
(* with respect to 0, 95.0, 100.0 and to every other such percentage.      *)
(***************************************************************************)
EXTENDS Integers, Sequences, FiniteSets, TLC

VARIABLES
    cover_out,          \* the lines of cover.out read so far, each by its
                        \* number (Code)
    line,               \* loop variable `line` after line.strip()
    file_stats,         \* the defaultdict: file identifier -> stats
    keys,               \* insertion order of file_stats (dict order)
    pc,                 \* position in parse_cover_out / main
    files_by_coverage,  \* main: list of (file_path, coverage, stats)
    low_coverage_files, \* main: the filtered list
    printed,            \* main: what has been printed, as values
    total_stats,        \* main: the overall totals
    overall_coverage    \* main: calculate_coverage(total_stats)

vars == <<cover_out, line, file_stats, keys, pc, files_by_coverage,
          low_coverage_files, printed, total_stats, overall_coverage>>

report_vars == <<files_by_coverage, low_coverage_files, printed,
                 total_stats, overall_coverage>>

(***************************************************************************)
(* Bounds of the model.                                                    *)
(***************************************************************************)
MaxInput == 2           \* lines of cover.out read line by line (Spec)

MaxLine == 5            \* line numbers of the line-set inputs (SpecReport)

(***************************************************************************)
(* Constants of the program.                                               *)
(***************************************************************************)
Threshold == 95         \* line 80: c < 95.0

UncoveredShown == 20    \* line 117: ranges[:20]

LowShown == 10          \* line 139: ranges[:10]

(***************************************************************************)
(* Characters and Python's text primitives.                                *)
(***************************************************************************)
DigitChars == <<"0", "1", "2", "3", "4", "5", "6", "7", "8", "9">>

IsDigit(c) == \E i \in 1..10 : DigitChars[i] = c

DigitVal(c) == (CHOOSE i \in 1..10 : DigitChars[i] = c) - 1

IsSpace(c) == c \in {" ", "\t", "\n", "\r"}

Range(s) == {s[i] : i \in 1..Len(s)}

RECURSIVE lstrip(_)
lstrip(s) == IF s # <<>> /\ IsSpace(Head(s)) THEN lstrip(Tail(s)) ELSE s

RECURSIVE rstrip(_)
rstrip(s) ==
    IF s # <<>> /\ IsSpace(s[Len(s)]) THEN rstrip(SubSeq(s, 1, Len(s) - 1)) ELSE s

\* str.strip()
strip(s) == rstrip(lstrip(s))

\* int(text) for a text of decimal digits
RECURSIVE int(_)
int(ds) ==
    IF ds = <<>> THEN 0
    ELSE int(SubSeq(ds, 1, Len(ds) - 1)) * 10 + DigitVal(ds[Len(ds)])

\* str(n) for n >= 0
RECURSIVE str(_)
str(n) ==
    IF n < 10 THEN <<DigitChars[n + 1]>>
    ELSE Append(str(n \div 10), DigitChars[(n % 10) + 1])

(***************************************************************************)
(* re.match(r'([^:]+):(\d+)\.(\d+),(\d+)\.(\d+)\s+(\d+)\s+(\d+)', line)    *)
(* Every repetition is followed by a character outside its class, so the   *)
(* greedy scan decides the match; re.match anchors at the start only.      *)
(***************************************************************************)
RECURSIVE NonColonEnd(_, _)
NonColonEnd(s, i) ==
    IF i <= Len(s) /\ s[i] # ":" THEN NonColonEnd(s, i + 1) ELSE i

RECURSIVE DigitsEnd(_, _)
DigitsEnd(s, i) ==
    IF i <= Len(s) /\ IsDigit(s[i]) THEN DigitsEnd(s, i + 1) ELSE i

RECURSIVE SpaceEnd(_, _)
SpaceEnd(s, i) ==
    IF i <= Len(s) /\ IsSpace(s[i]) THEN SpaceEnd(s, i + 1) ELSE i

Lit(s, i, c) == i <= Len(s) /\ s[i] = c

NoMatch == [ok |-> FALSE]

\* the pattern with its last group optional: r'...\s+(\d+)(?:\s+(\d+))?'
re_match_OptionalCount(s) ==
    LET p1 == NonColonEnd(s, 1)
        p2 == DigitsEnd(s, p1 + 1)
        p3 == DigitsEnd(s, p2 + 1)
        p4 == DigitsEnd(s, p3 + 1)
        p5 == DigitsEnd(s, p4 + 1)
        p6 == SpaceEnd(s, p5)
        p7 == DigitsEnd(s, p6)
        p8 == SpaceEnd(s, p7)
        p9 == DigitsEnd(s, p8)
    IN  IF /\ p1 > 1      /\ Lit(s, p1, ":")
           /\ p2 > p1 + 1 /\ Lit(s, p2, ".")
           /\ p3 > p2 + 1 /\ Lit(s, p3, ",")
           /\ p4 > p3 + 1 /\ Lit(s, p4, ".")
           /\ p5 > p4 + 1
           /\ p6 > p5 /\ p7 > p6
        THEN [ok |-> TRUE,
              g1 |-> SubSeq(s, 1, p1 - 1),
              g2 |-> SubSeq(s, p1 + 1, p2 - 1),
              g4 |-> SubSeq(s, p3 + 1, p4 - 1),
              g6 |-> SubSeq(s, p6, p7 - 1),
              g7 |-> IF p8 > p7 /\ p9 > p8 THEN SubSeq(s, p8, p9 - 1)
                     ELSE <<"0">>]
        ELSE NoMatch

re_match(s) ==
    LET p1 == NonColonEnd(s, 1)
        p2 == DigitsEnd(s, p1 + 1)
        p3 == DigitsEnd(s, p2 + 1)
        p4 == DigitsEnd(s, p3 + 1)
        p5 == DigitsEnd(s, p4 + 1)
        p6 == SpaceEnd(s, p5)
        p7 == DigitsEnd(s, p6)
        p8 == SpaceEnd(s, p7)
        p9 == DigitsEnd(s, p8)
    IN  IF /\ p1 > 1      /\ Lit(s, p1, ":")
           /\ p2 > p1 + 1 /\ Lit(s, p2, ".")
           /\ p3 > p2 + 1 /\ Lit(s, p3, ",")
           /\ p4 > p3 + 1 /\ Lit(s, p4, ".")
           /\ p5 > p4 + 1
           /\ p6 > p5 /\ p7 > p6 /\ p8 > p7 /\ p9 > p8
        THEN [ok |-> TRUE,
              g1 |-> SubSeq(s, 1, p1 - 1),
              g2 |-> SubSeq(s, p1 + 1, p2 - 1),
              g4 |-> SubSeq(s, p3 + 1, p4 - 1),
              g6 |-> SubSeq(s, p6, p7 - 1),
              g7 |-> SubSeq(s, p8, p9 - 1)]
        ELSE NoMatch

ModeAtomic == <<"m", "o", "d", "e", ":", " ", "a", "t", "o", "m", "i", "c">>

(***************************************************************************)
(* The lines cover.out may hold.  A record item is written out by Text as  *)
(* `<file>:<startLine>.<startCol>,<endLine>.<endCol> <statements> <count>`;*)
(* the other items are lines that are not records.                         *)
(***************************************************************************)
FileSeq == << <<"a", ".", "g", "o">>, <<"b", ".", "g", "o">>, <<"c", ".", "g", "o">> >>

FileNames == {FileSeq[1], FileSeq[2]}

LineNumbers == {1, 2, 3}

\* every line range (also an inverted one), never executed or executed
\* once, one statement
RangeRecords ==
    [file : FileNames, start_line : LineNumbers, end_line : LineNumbers,
     statements : {1}, count : {0, 1}, style : {"plain"}]

\* one line, with no statement or two, never executed or executed often
CountRecords ==
    [file : FileNames, start_line : {1}, end_line : {1},
     statements : {0, 2}, count : {0, 5}, style : {"plain"}]

\* every line range executed often; a record with blanks and tabs around its
\* fields, and with text after its count (re.match anchors at the start
\* of the line only, so that line is a record too)
OtherRecords ==
    [file : FileNames, start_line : LineNumbers, end_line : LineNumbers,
     statements : {1}, count : {5}, style : {"plain"}]
    \cup
    [file : {FileSeq[1]}, start_line : {1}, end_line : {2},
     statements : {1}, count : {0}, style : {"padded", "trailing"}]

Records == RangeRecords \cup CountRecords \cup OtherRecords

OtherSeq == <<"blank", "spaces", "mode", "mode-set", "no-count", "no-file">>

Others == {OtherSeq[i] : i \in 1..Len(OtherSeq)}

\* how a record is laid out on its line
StyleSeq == <<"plain", "padded", "trailing">>

Items == Records \cup [other : Others]

(***************************************************************************)
(* Whole cover.out files for the report: per file a profile, the list of   *)
(* its records as <<startLine, endLine, statements, count>>.               *)
(***************************************************************************)
ReportFiles == {FileSeq[i] : i \in 1..Len(FileSeq)}

\* profiles that differ in their percentage
PercentProfiles ==
    << << <<1, 1, 0, 0>> >>,                                  \* no statement
       << <<1, 2, 2, 0>> >>,                                  \* 0 of 2
       << <<1, 1, 1, 1>>, <<3, 4, 4, 0>> >>,                  \* 1 of 5
       << <<2, 2, 1, 5>>, <<4, 4, 1, 0>> >>,                  \* 1 of 2
       << <<5, 7, 1, 0>>, <<6, 8, 1, 0>>, <<1, 1, 2, 1>> >>,  \* 2 of 4
       << <<1, 1, 18, 1>>, <<3, 3, 1, 0>> >>,                 \* 18 of 19
       << <<1, 1, 19, 5>>, <<3, 3, 1, 0>> >>,                 \* 19 of 20
       << <<1, 2, 2, 1>> >> >>                                \* 2 of 2

\* n, n-1, ..., 1
Down(n) == [i \in 1..n |-> n + 1 - i]

\* the lines of S, greatest first
RECURSIVE Descending(_)
Descending(S) ==
    IF S = {} THEN <<>>
    ELSE LET m == CHOOSE x \in S : \A y \in S : y <= x
         IN  <<m>> \o Descending(S \ {m})

\* one record of one statement per line of lines, each executed count times
Singles(lines, count) ==
    [i \in 1..Len(lines) |-> <<lines[i], lines[i], 1, count>>]

\* u never-executed and w once-executed single lines, no two adjacent,
\* greatest first
Comb(u, w) ==
    Singles([i \in 1..u |-> 2 * Down(u)[i] - 1], 0)
    \o Singles([i \in 1..w |-> 2 * Down(w)[i] - 1], 1)

\* profiles that differ in their line sets: the sets of the examples, as
\* many ranges as are shown and one more, and every non-empty set of lines
\* up to MaxLine never executed with the other lines executed once
LineProfiles ==
    { << <<1, 3, 2, 0>>, <<4, 4, 1, 5>> >>,
      << <<9, 10, 1, 0>>, <<1, 3, 1, 0>>, <<7, 7, 1, 0>>, <<1, 1, 1, 5>> >>,
      Comb(UncoveredShown, LowShown),
      Comb(UncoveredShown + 1, LowShown + 1) }
    \cup
    { Singles(Descending(S), 0) \o Singles(Descending((1..MaxLine) \ S), 1)
      \o << <<1, 1, 1, 5>> >> : S \in (SUBSET (1..MaxLine)) \ {{}} }

\* the records of profile for file f
ProfileRecords(f, profile) ==
    [i \in 1..Len(profile) |->
        [file |-> f, start_line |-> profile[i][1], end_line |-> profile[i][2],
         statements |-> profile[i][3], count |-> profile[i][4],
         style |-> "plain"]]

ReportItems ==
    UNION {Range(ProfileRecords(f, PercentProfiles[k])) :
              f \in ReportFiles, k \in 1..Len(PercentProfiles)}
    \cup
    UNION {Range(ProfileRecords(f, profile)) :
              f \in {FileSeq[1]}, profile \in LineProfiles}

IsRecord(item) == "file" \in DOMAIN item

RecordText(r) ==
    LET sep  == IF r.style = "padded" THEN <<" ", "\t">> ELSE <<" ">>
        lead == IF r.style = "padded" THEN <<" ", " ">> ELSE <<>>
    IN  lead \o r.file \o <<":">> \o str(r.start_line) \o <<".", "1">> \o <<",">>
        \o str(r.end_line) \o <<".", "1", "0">> \o sep \o str(r.statements)
        \o sep \o str(r.count)
        \o (IF r.style = "trailing" THEN <<" ", "#", "x">> ELSE <<>>) \o <<"\n">>

OtherText(o) ==
    CASE o = "blank"     -> <<"\n">>
      [] o = "spaces"    -> <<" ", "\t", "\n">>
      [] o = "mode"      -> ModeAtomic \o <<"\n">>
      [] o = "mode-set"  -> <<"m", "o", "d", "e", ":", " ", "s", "e", "t", "\n">>
      [] o = "no-count"  -> <<"a", ".", "g", "o", ":", "1", ".", "1", ",", "2", ".", "1", " ", "1", "\n">>
      [] o = "no-file"   -> <<":", "1", ".", "1", ",", "2", ".", "1", " ", "1", " ", "0", "\n">>

Text(item) == IF IsRecord(item) THEN RecordText(item) ELSE OtherText(item.other)

\* cover_out names a line by a number: an other line by its place in
\* OtherSeq, a record by its fields written in mixed radix
Place(sq, x) == CHOOSE i \in 1..Len(sq) : sq[i] = x

Code(item) ==
    IF ~IsRecord(item) THEN Place(OtherSeq, item.other)
    ELSE Len(OtherSeq) + 1 + (Place(StyleSeq, item.style) - 1)
         + 3 * ((Place(FileSeq, item.file) - 1)
                + 3 * (item.count
                       + 6 * (item.statements
                              + 20 * (item.end_line + 64 * item.start_line))))

Item(id) ==
    IF id <= Len(OtherSeq) THEN [other |-> OtherSeq[id]]
    ELSE LET n == id - Len(OtherSeq) - 1
         IN  [style      |-> StyleSeq[(n % 3) + 1],
              file       |-> FileSeq[((n \div 3) % 3) + 1],
              count      |-> (n \div 9) % 6,
              statements |-> (n \div 54) % 20,
              end_line   |-> (n \div 1080) % 64,
              start_line |-> n \div 69120]

AllIds == {Code(item) : item \in Items \cup ReportItems}

\* the lines Spec reads
LineIds == {Code(item) : item \in Items}

\* lines 21 and 26 for every line cover.out may hold: line.strip() and
\* re.match on it
Scanned ==
    [id \in AllIds |->
        [line |-> strip(Text(Item(id))), m |-> re_match(strip(Text(Item(id))))]]

(***************************************************************************)
(* parse_cover_out: the accumulator.                                       *)
(***************************************************************************)
\* lines 12-17: the defaultdict's default value
DefaultStats ==
    [total_statements |-> 0, covered_statements |-> 0,
     uncovered_lines |-> <<>>, low_coverage_lines |-> <<>>]

\* line 36: file_stats[file_path], which inserts the default when absent
GetItem(fs, file_path) ==
    IF file_path \in DOMAIN fs THEN fs[file_path] ELSE DefaultStats

\* range(start, stop)
range(start, stop) ==
    [i \in 1..(IF stop > start THEN stop - start ELSE 0) |-> start + i - 1]

\* the loop without `if line_num not in ...`
AppendNew_NoCheck(lst, nums) == lst \o nums

\* lines 43-45 and 49-51: for line_num in nums: if line_num not in lst: append
RECURSIVE AppendNew(_, _)
AppendNew(lst, nums) ==
    IF nums = <<>> THEN lst
    ELSE AppendNew(IF Head(nums) \in Range(lst) THEN lst
                   ELSE Append(lst, Head(nums)),
                   Tail(nums))

\* counts the record, not its statements
UpdateTotal_CountsRecords(stats, statements) ==
    [stats EXCEPT !.total_statements = @ + 1]

\* line 37
UpdateTotal(stats, statements) ==
    [stats EXCEPT !.total_statements = @ + statements]

\* adds the execution count, not the statements
UpdateCovered_AddsCount(stats, start_line, end_line, statements, count) ==
    IF count > 0
    THEN [stats EXCEPT !.covered_statements = @ + count]
    ELSE [stats EXCEPT !.uncovered_lines =
                           AppendNew(@, range(start_line, end_line + 1))]

\* lines 39-45
UpdateCovered(stats, start_line, end_line, statements, count) ==
    IF count > 0
    THEN [stats EXCEPT !.covered_statements = @ + statements]
    ELSE [stats EXCEPT !.uncovered_lines =
                           AppendNew(@, range(start_line, end_line + 1))]

\* `count <= 1` without `and count > 0`
UpdateLow_NoLowerBound(stats, start_line, end_line, count) ==
    IF count <= 1
    THEN [stats EXCEPT !.low_coverage_lines =
                           AppendNew(@, range(start_line, end_line + 1))]
    ELSE stats

\* lines 47-51
UpdateLow(stats, start_line, end_line, count) ==
    IF count <= 1 /\ count > 0
    THEN [stats EXCEPT !.low_coverage_lines =
                           AppendNew(@, range(start_line, end_line + 1))]
    ELSE stats

\* lines 30-51: the stats of the record's file after the record
Accumulate(fs, m) ==
    LET start_line == int(m.g2)
        end_line   == int(m.g4)
        statements == int(m.g6)
        count      == int(m.g7)
    IN  UpdateLow(
            UpdateCovered(UpdateTotal(GetItem(fs, m.g1), statements),
                          start_line, end_line, statements, count),
            start_line, end_line, count)

\* the dict after stats is stored under file_path
SetItem(fs, file_path, stats) ==
    [k \in DOMAIN fs \cup {file_path} |->
        IF k = file_path THEN stats ELSE fs[k]]

\* the dict's insertion order after file_path is looked up
Inserted(ks, file_path) ==
    IF file_path \in Range(ks) THEN ks ELSE Append(ks, file_path)

\* lines 21-22: the line is blank or the mode header
IsBlankOrMode(stripped) == stripped = <<>> \/ stripped = ModeAtomic

(***************************************************************************)
(* One pass of the loop of parse_cover_out per line of cover.out.          *)
(***************************************************************************)
EmptyDict == [k \in {} |-> DefaultStats]

NoReport ==
    /\ files_by_coverage = <<>>
    /\ low_coverage_files = <<>>
    /\ printed = <<>>
    /\ total_stats = [total_statements |-> 0, covered_statements |-> 0]
    /\ overall_coverage = [num |-> 0, den |-> 1]

Init ==
    /\ cover_out = <<>>
    /\ line = <<>>
    /\ file_stats = EmptyDict
    /\ keys = <<>>
    /\ pc = "reading"
    /\ NoReport

\* lines 20-23: a blank line or the mode header: continue
SkipBlankOrMode(id) ==
    /\ pc = "reading"
    /\ Len(cover_out) < MaxInput
    /\ IsBlankOrMode(Scanned[id].line)
    /\ cover_out' = Append(cover_out, id)
    /\ line' = Scanned[id].line
    /\ UNCHANGED <<file_stats, keys, pc, report_vars>>

\* lines 20-28: the line does not match: continue
SkipNoMatch(id) ==
    /\ pc = "reading"
    /\ Len(cover_out) < MaxInput
    /\ ~IsBlankOrMode(Scanned[id].line)
    /\ ~Scanned[id].m.ok
    /\ cover_out' = Append(cover_out, id)
    /\ line' = Scanned[id].line
    /\ UNCHANGED <<file_stats, keys, pc, report_vars>>

\* lines 20-51: the line matches: its record is accumulated
AccumulateRecord(id) ==
    LET m == Scanned[id].m
    IN  /\ pc = "reading"
        /\ Len(cover_out) < MaxInput
        /\ ~IsBlankOrMode(Scanned[id].line)
        /\ m.ok
        /\ cover_out' = Append(cover_out, id)
        /\ line' = Scanned[id].line
        /\ file_stats' = SetItem(file_stats, m.g1, Accumulate(file_stats, m))
        /\ keys' = Inserted(keys, m.g1)
        /\ UNCHANGED <<pc, report_vars>>

\* line 53: the file is exhausted: return file_stats
Return ==
    /\ pc = "reading"
    /\ pc' = "returned"
    /\ UNCHANGED <<cover_out, line, file_stats, keys, report_vars>>

Next ==
    \/ \E id \in LineIds : SkipBlankOrMode(id)
    \/ \E id \in LineIds : SkipNoMatch(id)
    \/ \E id \in LineIds : AccumulateRecord(id)
    \/ Return

Spec == Init /\ [][Next]_vars

(***************************************************************************)
(* main() on a whole cover.out: parse_cover_out as one step, then the      *)
(* report.                                                                 *)
(***************************************************************************)
\* lines 20-51: the dict after one more line
AfterLine(d, id) ==
    LET sc == Scanned[id]
    IN  IF IsBlankOrMode(sc.line) \/ ~sc.m.ok THEN d
        ELSE [file_stats |-> SetItem(d.file_stats, sc.m.g1,
                                     Accumulate(d.file_stats, sc.m)),
              keys |-> Inserted(d.keys, sc.m.g1)]

\* lines 10-53 on the lines ids
RECURSIVE parse_cover_out(_)
parse_cover_out(ids) ==
    IF ids = <<>> THEN [file_stats |-> EmptyDict, keys |-> <<>>]
    ELSE AfterLine(parse_cover_out(SubSeq(ids, 1, Len(ids) - 1)), ids[Len(ids)])

Ids(items) == [i \in 1..Len(items) |-> Code(items[i])]

RECURSIVE Concat(_)
Concat(seqs) == IF seqs = <<>> THEN <<>> ELSE Head(seqs) \o Concat(Tail(seqs))

Reverse(sq) == [i \in 1..Len(sq) |-> sq[Len(sq) + 1 - i]]

\* sequences of n distinct files
FileOrders(n) ==
    {order \in [1..n -> ReportFiles] :
        \A i, j \in 1..n : i # j => order[i] # order[j]}

\* the mode header, the first record of every file in order, then the
\* other records of the files in the opposite order
Interleaved(blocks) ==
    <<[other |-> "mode"]>>
    \o Concat([i \in 1..Len(blocks) |-> <<Head(blocks[i])>>])
    \o Concat(Reverse([i \in 1..Len(blocks) |-> Tail(blocks[i])]))

ReportInputs ==
    UNION {{Interleaved([i \in 1..n |->
                            ProfileRecords(order[i], PercentProfiles[choice[i]])]) :
               order \in FileOrders(n),
               choice \in [1..n -> 1..Len(PercentProfiles)]} :
           n \in 0..Cardinality(ReportFiles)}
    \cup
    {Interleaved(<<ProfileRecords(FileSeq[1], profile)>>) :
        profile \in LineProfiles}

InitReport ==
    \E input \in ReportInputs :
        LET ids == Ids(input)
            d   == parse_cover_out(ids)
        IN  /\ cover_out = ids
            /\ line = IF ids = <<>> THEN <<>> ELSE Scanned[ids[Len(ids)]].line
            /\ file_stats = d.file_stats
            /\ keys = d.keys
            /\ pc = "returned"
            /\ NoReport


(***************************************************************************)
(* calculate_coverage and main().  A percentage is the rational num/den    *)
(* with den > 0.                                                           *)
(***************************************************************************)
Percent(n) == [num |-> n, den |-> 1]

Lt(a, b) == a.num * b.den < b.num * a.den

Eq(a, b) == a.num * b.den = b.num * a.den

\* no statements counted as nothing covered
calculate_coverage_ZeroTotal(stats) ==
    IF stats.total_statements = 0 THEN Percent(0)
    ELSE [num |-> stats.covered_statements * 100, den |-> stats.total_statements]

\* lines 55-59
calculate_coverage(stats) ==
    IF stats.total_statements = 0 THEN Percent(100)
    ELSE [num |-> stats.covered_statements * 100, den |-> stats.total_statements]

\* lines 72-75: one (file_path, coverage, stats) per entry, in dict order
Entries(fs, ks) ==
    [i \in 1..Len(ks) |->
        [file_path |-> ks[i], coverage |-> calculate_coverage(fs[ks[i]]),
         stats |-> fs[ks[i]]]]

\* a sort that puts an entry before the entries of equal coverage
RECURSIVE InsertByCoverage_Unstable(_, _)
InsertByCoverage_Unstable(sorted_part, x) ==
    IF sorted_part = <<>> THEN <<x>>
    ELSE IF ~Lt(Head(sorted_part).coverage, x.coverage) THEN <<x>> \o sorted_part
    ELSE <<Head(sorted_part)>> \o InsertByCoverage_Unstable(Tail(sorted_part), x)

\* list.sort(key=lambda x: x[1]) is stable: an entry goes before the first
\* entry whose coverage is greater
RECURSIVE InsertByCoverage(_, _)
InsertByCoverage(sorted_part, x) ==
    IF sorted_part = <<>> THEN <<x>>
    ELSE IF Lt(x.coverage, Head(sorted_part).coverage) THEN <<x>> \o sorted_part
    ELSE <<Head(sorted_part)>> \o InsertByCoverage(Tail(sorted_part), x)

RECURSIVE SortByCoverage(_)
SortByCoverage(lst) ==
    IF lst = <<>> THEN <<>>
    ELSE InsertByCoverage(SortByCoverage(SubSeq(lst, 1, Len(lst) - 1)),
                          lst[Len(lst)])

\* `c <= 95.0`
IsLowCoverage_Inclusive(c) == ~Lt(Percent(Threshold), c) /\ Lt(Percent(0), c)

\* line 80: c < 95.0 and c > 0
IsLowCoverage(c) == Lt(c, Percent(Threshold)) /\ Lt(Percent(0), c)

\* sorted(lines) for a list of integers
RECURSIVE InsertNumber(_, _)
InsertNumber(sorted_part, n) ==
    IF sorted_part = <<>> THEN <<n>>
    ELSE IF n < Head(sorted_part) THEN <<n>> \o sorted_part
    ELSE <<Head(sorted_part)>> \o InsertNumber(Tail(sorted_part), n)

RECURSIVE sorted(_)
sorted(lst) ==
    IF lst = <<>> THEN <<>>
    ELSE InsertNumber(sorted(SubSeq(lst, 1, Len(lst) - 1)), lst[Len(lst)])

\* lines 106-109 and 112-115: str(start) or f"{start}-{end}"
Token(start, end) ==
    IF start = end THEN str(start) ELSE str(start) \o <<"-">> \o str(end)

\* the loop without the last range (lines 112-115)
RECURSIVE MergeLoop_NoFlush(_, _, _, _)
MergeLoop_NoFlush(rest, start, end, ranges) ==
    IF rest = <<>> THEN ranges
    ELSE IF Head(rest) = end + 1
         THEN MergeLoop_NoFlush(Tail(rest), start, Head(rest), ranges)
         ELSE MergeLoop_NoFlush(Tail(rest), Head(rest), Head(rest),
                                Append(ranges, Token(start, end)))

\* lines 102-115: the loop over uncovered[1:], then the last range
RECURSIVE MergeLoop(_, _, _, _)
MergeLoop(rest, start, end, ranges) ==
    IF rest = <<>> THEN Append(ranges, Token(start, end))
    ELSE IF Head(rest) = end + 1
         THEN MergeLoop(Tail(rest), start, Head(rest), ranges)
         ELSE MergeLoop(Tail(rest), Head(rest), Head(rest),
                        Append(ranges, Token(start, end)))

\* lines 97-115 (and 120-137) for a non-empty list of lines
MergeRanges(lines) ==
    LET uncovered == sorted(lines)
    IN  MergeLoop(Tail(uncovered), uncovered[1], uncovered[1], <<>>)

\* ', '.join(tokens)
RECURSIVE join(_)
join(tokens) ==
    IF tokens = <<>> THEN <<>>
    ELSE IF Len(tokens) = 1 THEN tokens[1]
    ELSE tokens[1] \o <<",", " ">> \o join(Tail(tokens))

\* tokens[:limit]
Slice(tokens, limit) ==
    SubSeq(tokens, 1, IF Len(tokens) < limit THEN Len(tokens) ELSE limit)

\* lines 117 and 139: the text after the label
Shown(ranges, limit) ==
    join(Slice(ranges, limit))
    \o (IF Len(ranges) > limit THEN <<" ", ".", ".", ".">> ELSE <<>>)

\* lines 93-139: what is printed for one file of low_coverage_files
FileBlock(e) ==
    LET unc == IF e.stats.uncovered_lines # <<>>
               THEN MergeRanges(e.stats.uncovered_lines) ELSE <<>>
        low == IF e.stats.low_coverage_lines # <<>>
               THEN MergeRanges(e.stats.low_coverage_lines) ELSE <<>>
    IN  [tag |-> "file", file_path |-> e.file_path, coverage |-> e.coverage,
         covered |-> e.stats.covered_statements,
         total |-> e.stats.total_statements,
         uncovered_ranges |-> unc,
         uncovered_text |-> Shown(unc, UncoveredShown),
         low_ranges |-> low,
         low_text |-> Shown(low, LowShown)]

RECURSIVE SumTotal(_)
SumTotal(lst) ==
    IF lst = <<>> THEN 0
    ELSE Head(lst).stats.total_statements + SumTotal(Tail(lst))

RECURSIVE SumCovered(_)
SumCovered(lst) ==
    IF lst = <<>> THEN 0
    ELSE Head(lst).stats.covered_statements + SumCovered(Tail(lst))

\* the totals of the listed files only
TotalStats_LowOnly(lst) ==
    [total_statements |->
         SumTotal(SelectSeq(lst, LAMBDA e : IsLowCoverage(e.coverage))),
     covered_statements |->
         SumCovered(SelectSeq(lst, LAMBDA e : IsLowCoverage(e.coverage)))]

\* lines 144-147
TotalStats(lst) ==
    [total_statements |-> SumTotal(lst), covered_statements |-> SumCovered(lst)]

\* line 80: the list comprehension
LowCoverage(lst) == SelectSeq(lst, LAMBDA e : IsLowCoverage(e.coverage))

\* lines 69-77
SortFiles ==
    /\ pc = "returned"
    /\ files_by_coverage' = SortByCoverage(Entries(file_stats, keys))
    /\ pc' = "sorted"
    /\ UNCHANGED <<cover_out, line, file_stats, keys, low_coverage_files,
                   printed, total_stats, overall_coverage>>

\* lines 79-84
FilterLow ==
    /\ pc = "sorted"
    /\ low_coverage_files' = LowCoverage(files_by_coverage)
    /\ printed' = Append(printed,
                         [tag |-> "counts",
                          files |-> Len(files_by_coverage),
                          low |-> Len(LowCoverage(files_by_coverage))])
    /\ pc' = "filtered"
    /\ UNCHANGED <<cover_out, line, file_stats, keys, files_by_coverage,
                   total_stats, overall_coverage>>

\* lines 92-141: the next file of low_coverage_files
PrintFile ==
    /\ pc = "filtered"
    /\ Len(printed) - 1 < Len(low_coverage_files)
    /\ printed' = Append(printed, FileBlock(low_coverage_files[Len(printed)]))
    /\ UNCHANGED <<cover_out, line, file_stats, keys, pc, files_by_coverage,
                   low_coverage_files, total_stats, overall_coverage>>

\* lines 143-154
PrintSummary ==
    LET t == TotalStats(files_by_coverage)
    IN  /\ pc = "filtered"
        /\ Len(printed) - 1 = Len(low_coverage_files)
        /\ total_stats' = t
        /\ overall_coverage' = calculate_coverage(t)
        /\ printed' = Append(printed,
                             [tag |-> "summary",
                              coverage |-> calculate_coverage(t),
                              total |-> t.total_statements,
                              covered |-> t.covered_statements,
                              uncovered |-> t.total_statements
                                            - t.covered_statements])
        /\ pc' = "done"
        /\ UNCHANGED <<cover_out, line, file_stats, keys, files_by_coverage,
                       low_coverage_files>>

NextReport == SortFiles \/ FilterLow \/ PrintFile \/ PrintSummary

SpecReport == InitReport /\ [][NextReport]_vars

(***************************************************************************)
(* What cover.out held, for the properties: the records read so far, as    *)
(* they were written (not as parse_cover_out scanned them).                *)
(***************************************************************************)
Consumed == [i \in 1..Len(cover_out) |-> Item(cover_out[i])]

RecordsOf(f) == SelectSeq(Consumed, LAMBDA it : IsRecord(it) /\ it.file = f)

Executed(rs) == SelectSeq(rs, LAMBDA it : it.count > 0)

RECURSIVE SumStatements(_)
SumStatements(rs) ==
    IF rs = <<>> THEN 0 ELSE Head(rs).statements + SumStatements(Tail(rs))

\* the lines spanned by the records of rs whose execution count is c
LinesWithCount(rs, c) ==
    UNION {r.start_line..r.end_line : r \in {x \in Range(rs) : x.count = c}}

(***************************************************************************)
(* C1: after any sequence of records, each file's total_statements is the  *)
(* sum of the statement counts of all its records and covered_statements   *)
(* the sum over its records with execution count > 0; a file has an entry  *)
(* exactly when one of its records was read.                               *)
(***************************************************************************)
C1_Sums ==
    \A f \in FileNames :
        LET rs == RecordsOf(f)
        IN  IF rs = <<>> THEN f \notin DOMAIN file_stats
            ELSE /\ f \in DOMAIN file_stats
                 /\ file_stats[f].total_statements = SumStatements(rs)
                 /\ file_stats[f].covered_statements =
                        SumStatements(Executed(rs))

\* a never-executed record of two statements and an executed record of one
\* statement of the same file were read: total 3, covered 1
C1_Witness ==
    /\ pc = "returned"
    /\ \E f \in DOMAIN file_stats :
          /\ Len(RecordsOf(f)) = 2
          /\ file_stats[f].total_statements = 3
          /\ file_stats[f].covered_statements = 1
          /\ file_stats[f].uncovered_lines = <<1>>

(***************************************************************************)
(* C2: in every state covered_statements <= total_statements for every     *)
(* file, and no step removes a file, decreases a count or removes a line   *)
(* from uncovered_lines or low_coverage_lines.                             *)
(***************************************************************************)
CoveredAtMostTotal(fs) ==
    \A f \in DOMAIN fs : fs[f].covered_statements <= fs[f].total_statements

IsPrefix(a, b) == Len(a) <= Len(b) /\ SubSeq(b, 1, Len(a)) = a

C2_Monotone ==
    [][/\ CoveredAtMostTotal(file_stats')
       /\ \A f \in DOMAIN file_stats :
             /\ f \in DOMAIN file_stats'
             /\ file_stats'[f].total_statements >= file_stats[f].total_statements
             /\ file_stats'[f].covered_statements >= file_stats[f].covered_statements
             /\ IsPrefix(file_stats[f].uncovered_lines,
                         file_stats'[f].uncovered_lines)
             /\ IsPrefix(file_stats[f].low_coverage_lines,
                         file_stats'[f].low_coverage_lines)]_vars

\* a file with executed and never-executed statements and lines in both
\* collections
C2_Witness ==
    \E f \in DOMAIN file_stats :
        /\ file_stats[f].covered_statements > 0
        /\ file_stats[f].covered_statements < file_stats[f].total_statements
        /\ file_stats[f].uncovered_lines # <<>>
        /\ file_stats[f].low_coverage_lines # <<>>

(***************************************************************************)
(* C4: a line is in uncovered_lines exactly when a record of the file with *)
(* execution count 0 spans it, and in low_coverage_lines exactly when a    *)
(* record with execution count 1 spans it; a record with startLine >       *)
(* endLine spans no line.                                                  *)
(***************************************************************************)
C4_Lines ==
    \A f \in DOMAIN file_stats :
        /\ Range(file_stats[f].uncovered_lines) = LinesWithCount(RecordsOf(f), 0)
        /\ Range(file_stats[f].low_coverage_lines) = LinesWithCount(RecordsOf(f), 1)

\* line 2 is in both collections, from a record never executed and a
\* record executed once
C4_Witness ==
    \E f \in DOMAIN file_stats :
        /\ Range(file_stats[f].uncovered_lines) = {1, 2}
        /\ Range(file_stats[f].low_coverage_lines) = {2, 3}

(***************************************************************************)
(* C3: no line number occurs twice in uncovered_lines or in                *)
(* low_coverage_lines, also when records of the file overlap or repeat:    *)
(* each list holds every spanned line once; two never-executed records     *)
(* over lines 1-2 and 2-3 give the three entries 1, 2, 3, rendered "1-3".  *)
(***************************************************************************)
NoDuplicates(lst) == \A i, j \in 1..Len(lst) : lst[i] = lst[j] => i = j

C3_NoDuplicates ==
    \A f \in DOMAIN file_stats :
        LET unc == file_stats[f].uncovered_lines
            low == file_stats[f].low_coverage_lines
        IN  /\ NoDuplicates(unc)
            /\ NoDuplicates(low)
            /\ Len(unc) = Cardinality(LinesWithCount(RecordsOf(f), 0))
            /\ Len(low) = Cardinality(LinesWithCount(RecordsOf(f), 1))
            /\ Range(unc) = {1, 2, 3} => MergeRanges(unc) = <<<<"1", "-", "3">>>>

\* two overlapping never-executed records of one file were read
C3_Witness ==
    \E f \in DOMAIN file_stats :
        /\ Len(RecordsOf(f)) = 2
        /\ RecordsOf(f)[1].count = 0 /\ RecordsOf(f)[2].count = 0
        /\ RecordsOf(f)[1].start_line = 1 /\ RecordsOf(f)[1].end_line = 2
        /\ RecordsOf(f)[2].start_line = 2 /\ RecordsOf(f)[2].end_line = 3
        /\ file_stats[f].uncovered_lines = <<1, 2, 3>>

(***************************************************************************)
(* C10: a blank line, the mode header and every line that is not a record  *)
(* leave the mapping as it is: the mapping and its order are those of the  *)
(* same input with all such lines removed.                                 *)
(***************************************************************************)
RecordIds(ids) == SelectSeq(ids, LAMBDA id : IsRecord(Item(id)))

C10_SkippedLines ==
    [file_stats |-> file_stats, keys |-> keys]
        = parse_cover_out(RecordIds(cover_out))

\* a line that is not a record was read after a record
C10_Witness ==
    /\ Len(cover_out) = 2
    /\ IsRecord(Item(cover_out[1]))
    /\ ~IsRecord(Item(cover_out[2]))
    /\ line # <<>> /\ line # ModeAtomic
    /\ DOMAIN file_stats # {}

(***************************************************************************)
(* The report, for the properties: the files by their place in the dict,   *)
(* and what was printed.                                                   *)
(***************************************************************************)
Reported == pc \in {"filtered", "done"}

FileBlocks == SelectSeq(printed, LAMBDA b : b.tag = "file")

\* 0 < covered / total * 100 < 95, in integers
NeedsAttention(f) ==
    /\ file_stats[f].total_statements > 0
    /\ file_stats[f].covered_statements > 0
    /\ 100 * file_stats[f].covered_statements
          < 95 * file_stats[f].total_statements

(***************************************************************************)
(* C5: the low-coverage section lists exactly the files whose percentage p *)
(* has 0 < p < 95.0 (not a file at 0%, not one at 95.0% or above, not one  *)
(* without statements), and the printed count is the number listed.        *)
(***************************************************************************)
C5_LowCoverageFilter ==
    /\ Reported =>
          /\ {low_coverage_files[i].file_path : i \in 1..Len(low_coverage_files)}
                = {f \in DOMAIN file_stats : NeedsAttention(f)}
          /\ NoDuplicates(low_coverage_files)
          /\ printed[1].tag = "counts"
          /\ printed[1].low = Len(low_coverage_files)
          /\ printed[1].files = Cardinality(DOMAIN file_stats)
    /\ pc = "done" =>
          [i \in 1..Len(FileBlocks) |-> FileBlocks[i].file_path]
            = [i \in 1..Len(low_coverage_files) |->
                  low_coverage_files[i].file_path]

\* a file at 0%, a file at exactly 95% and a file just below, which alone
\* is listed
C5_Witness ==
    /\ pc = "done"
    /\ Len(low_coverage_files) = 1
    /\ \E f, g, h \in DOMAIN file_stats :
          /\ file_stats[f].covered_statements = 0
          /\ file_stats[f].total_statements = 2
          /\ file_stats[g].covered_statements = 19
          /\ file_stats[g].total_statements = 20
          /\ file_stats[h].covered_statements = 18
          /\ file_stats[h].total_statements = 19
          /\ low_coverage_files[1].file_path = h

(***************************************************************************)
(* C6: the overall summary covers every file: the overall total is the sum *)
(* of total_statements of all files, which is the sum of the statement     *)
(* counts of all records, the overall covered likewise, the percentage is  *)
(* covered / total * 100 (100 without statements) and the printed          *)
(* uncovered count total - covered is not negative.                        *)
(***************************************************************************)
RECURSIVE SumOver(_, _)
SumOver(S, field) ==
    IF S = {} THEN 0
    ELSE LET f == CHOOSE x \in S : TRUE
         IN  file_stats[f][field] + SumOver(S \ {f}, field)

AllRecords == SelectSeq(Consumed, IsRecord)

C6_OverallSummary ==
    pc = "done" =>
        LET t == SumOver(DOMAIN file_stats, "total_statements")
            c == SumOver(DOMAIN file_stats, "covered_statements")
            s == printed[Len(printed)]
        IN  /\ total_stats.total_statements = t
            /\ total_stats.covered_statements = c
            /\ t = SumStatements(AllRecords)
            /\ c = SumStatements(Executed(AllRecords))
            /\ IF t = 0 THEN overall_coverage = Percent(100)
               ELSE Eq(overall_coverage, [num |-> c * 100, den |-> t])
            /\ s.tag = "summary"
            /\ s.total = t /\ s.covered = c /\ s.coverage = overall_coverage
            /\ s.uncovered = t - c /\ s.uncovered >= 0

\* files outside the low-coverage section (one at 0%, one at 100%) count
\* in the summary
C6_Witness ==
    /\ pc = "done"
    /\ Len(files_by_coverage) = 3
    /\ Len(low_coverage_files) = 1
    /\ \E f, g \in DOMAIN file_stats :
          /\ file_stats[f].covered_statements = 0
          /\ file_stats[f].total_statements = 2
          /\ file_stats[g].covered_statements = 2
          /\ file_stats[g].total_statements = 2
    /\ total_stats.total_statements > 4
    /\ total_stats.covered_statements > 2

(***************************************************************************)
(* C7: calculate_coverage is exactly 100.0 when total_statements is 0, for *)
(* a file and for the overall totals, and covered / total * 100 otherwise; *)
(* for every stats value parse_cover_out returns it lies in [0, 100].      *)
(***************************************************************************)
CoverageOf(c, covered, total) ==
    /\ IF total = 0 THEN c = Percent(100)
       ELSE Eq(c, [num |-> covered * 100, den |-> total])
    /\ ~Lt(c, Percent(0))
    /\ ~Lt(Percent(100), c)

C7_Coverage ==
    /\ \A i \in 1..Len(files_by_coverage) :
          CoverageOf(files_by_coverage[i].coverage,
                     file_stats[files_by_coverage[i].file_path].covered_statements,
                     file_stats[files_by_coverage[i].file_path].total_statements)
    /\ pc # "returned" => Len(files_by_coverage) = Len(keys)
    /\ pc = "done" =>
          CoverageOf(overall_coverage,
                     SumStatements(Executed(AllRecords)),
                     SumStatements(AllRecords))

\* a file whose only record has no statement, and the overall totals of
\* that input
C7_Witness ==
    /\ pc = "done"
    /\ Len(files_by_coverage) = 1
    /\ files_by_coverage[1].stats.total_statements = 0
    /\ files_by_coverage[1].stats.uncovered_lines # <<>>
    /\ files_by_coverage[1].coverage = Percent(100)
    /\ overall_coverage = Percent(100)

(***************************************************************************)
(* C8: the low-coverage section is in ascending order of percentage, and   *)
(* files of equal percentage are in the order in which their first record  *)
(* was read.                                                               *)
(***************************************************************************)
C8_SortedStable ==
    Reported =>
        \A i, j \in 1..Len(low_coverage_files) :
            i < j =>
                /\ ~Lt(low_coverage_files[j].coverage,
                       low_coverage_files[i].coverage)
                /\ Eq(low_coverage_files[i].coverage,
                      low_coverage_files[j].coverage)
                   => Place(keys, low_coverage_files[i].file_path)
                        < Place(keys, low_coverage_files[j].file_path)

\* files read at 50%, 20%, 50% (1 of 2, 1 of 5, 2 of 4) are listed 20%,
\* 50%, 50% with the two at 50% in the order read
C8_Witness ==
    /\ pc = "done"
    /\ Len(keys) = 3
    /\ Len(low_coverage_files) = 3
    /\ low_coverage_files[1].file_path = keys[2]
    /\ low_coverage_files[2].file_path = keys[1]
    /\ low_coverage_files[3].file_path = keys[3]
    /\ low_coverage_files[1].coverage = [num |-> 100, den |-> 5]
    /\ low_coverage_files[2].coverage = [num |-> 100, den |-> 2]
    /\ low_coverage_files[3].coverage = [num |-> 200, den |-> 4]

(***************************************************************************)
(* C9: for a non-empty collection of distinct lines the tokens are the     *)
(* maximal runs of consecutive lines in ascending order, written `start`   *)
(* for a run of one line and `start-end` otherwise, the runs disjoint and  *)
(* not adjacent and their union the collection; {1,2,3,7,9,10} gives       *)
(* "1-3", "7", "9-10".  The first 20 (uncovered) or 10 (low-execution)     *)
(* tokens are shown, followed by " ..." exactly when there are more.       *)
(***************************************************************************)
Dashes(tok) == {i \in 1..Len(tok) : tok[i] = "-"}

IsNumber(cs) ==
    /\ cs # <<>>
    /\ \A i \in 1..Len(cs) : IsDigit(cs[i])
    /\ Len(cs) > 1 => cs[1] # "0"

\* the run a token stands for
Run(tok) ==
    IF Dashes(tok) = {} THEN [start |-> int(tok), end |-> int(tok)]
    ELSE LET d == CHOOSE i \in Dashes(tok) : TRUE
         IN  [start |-> int(SubSeq(tok, 1, d - 1)),
              end   |-> int(SubSeq(tok, d + 1, Len(tok)))]

WellFormed(tok) ==
    IF Dashes(tok) = {} THEN IsNumber(tok)
    ELSE LET d == CHOOSE i \in Dashes(tok) : TRUE
         IN  /\ Cardinality(Dashes(tok)) = 1
             /\ IsNumber(SubSeq(tok, 1, d - 1))
             /\ IsNumber(SubSeq(tok, d + 1, Len(tok)))
             /\ Run(tok).start < Run(tok).end

Compressed(lines, ranges) ==
    IF lines = <<>> THEN ranges = <<>>
    ELSE /\ ranges # <<>>
         /\ \A i \in 1..Len(ranges) : WellFormed(ranges[i])
         /\ \A i \in 1..(Len(ranges) - 1) :
               Run(ranges[i]).end + 1 < Run(ranges[i + 1]).start
         /\ UNION {Run(ranges[i]).start..Run(ranges[i]).end :
                      i \in 1..Len(ranges)} = Range(lines)

Count(text, c) == Cardinality({i \in 1..Len(text) : text[i] = c})

Truncated(ranges, text, limit) ==
    LET k == IF Len(ranges) < limit THEN Len(ranges) ELSE limit
    IN  /\ IsPrefix(join(SubSeq(ranges, 1, k)), text)
        /\ ranges # <<>> => Count(text, ",") = k - 1
        /\ Count(text, ".") = (IF Len(ranges) > limit THEN 3 ELSE 0)
        /\ Len(text) = Len(join(SubSeq(ranges, 1, k)))
                         + (IF Len(ranges) > limit THEN 4 ELSE 0)

C9_RangeCompression ==
    \A i \in 1..Len(FileBlocks) :
        LET b   == FileBlocks[i]
            unc == file_stats[b.file_path].uncovered_lines
            low == file_stats[b.file_path].low_coverage_lines
        IN  /\ Compressed(unc, b.uncovered_ranges)
            /\ Compressed(low, b.low_ranges)
            /\ Truncated(b.uncovered_ranges, b.uncovered_text, 20)
            /\ Truncated(b.low_ranges, b.low_text, 10)
            /\ Range(unc) = {1, 2, 3, 7, 9, 10} =>
                  b.uncovered_ranges
                    = << <<"1", "-", "3">>, <<"7">>, <<"9", "-", "1", "0">> >>
            /\ Range(unc) = {5, 6, 7, 8} =>
                  b.uncovered_ranges = << <<"5", "-", "8">> >>

\* 21 uncovered and 11 low-execution runs, read greatest line first: 20
\* and 10 tokens are shown and the ellipsis follows
C9_Witness ==
    /\ pc = "done"
    /\ Len(FileBlocks) = 1
    /\ Len(FileBlocks[1].uncovered_ranges) = 21
    /\ Len(FileBlocks[1].low_ranges) = 11
    /\ FileBlocks[1].uncovered_ranges[1] = <<"1">>
    /\ FileBlocks[1].uncovered_ranges[21] = <<"4", "1">>
    /\ Count(FileBlocks[1].uncovered_text, ",") = 19
    /\ Count(FileBlocks[1].low_text, ".") = 3

====
